---- MODULE Spec2Model ----
(***************************************************************************)
(* Model of src/src/bodies.rs: the PhysicsBody component, its builder and  *)
(* the synchronisation functions between the component and an nphysics     *)
(* RigidBody (to_rigid_body_desc, apply_to_physics_world,                  *)
(* update_from_physics_world, drain_external_force).                       *)
(*                                                                         *)
(* Scalars of the generic RealField N are modelled as integers; a mass is  *)
(* counted in tenths, so the default 1.2 is 12.                            *)
(***************************************************************************)
EXTENDS Integers, Sequences, FiniteSets, TLC

\* ------------------------------------------------------------------ bounds
\* Setter calls explored on one builder (BuilderSpec).
MaxSetterCalls == 2
\* Setter calls on the builder that produced the component Spec starts from.
MaxInitSetters == 1
\* Calls to apply_external_force in one behaviour.
MaxApplies == 2

\* ------------------------------------------------------------ Option<T>
None == <<>>
Some(x) == <<x>>

\* ------------------------------------------------- nalgebra / nphysics values
Vector3(x, y, z) == <<x, y, z>>
Vector3_zeros == Vector3(0, 0, 0)
Vector3_add(a, b) == Vector3(a[1] + b[1], a[2] + b[2], a[3] + b[3])

Force3(linear, angular) == [linear |-> linear, angular |-> angular]
Force3_zero == Force3(Vector3_zeros, Vector3_zeros)
\* `+=` on Force3: component-wise sum of the linear and the angular part
Force3_add(f, g) ==
    Force3(Vector3_add(f.linear, g.linear), Vector3_add(f.angular, g.angular))

Velocity3(linear, angular) == [linear |-> linear, angular |-> angular]
Velocity3_zero == Velocity3(Vector3_zeros, Vector3_zeros)
Velocity3_linear(x, y, z) == Velocity3(Vector3(x, y, z), Vector3_zeros)

Matrix3_from_diagonal_element(d) ==
    <<Vector3(d, 0, 0), Vector3(0, d, 0), Vector3(0, 0, d)>>
Matrix3_zeros == Matrix3_from_diagonal_element(0)

Point3(x, y, z) == <<x, y, z>>
Point3_origin == Point3(0, 0, 0)

Inertia3(linear, angular) == [linear |-> linear, angular |-> angular]

BodyStatus == {"Dynamic", "Static", "Kinematic"}

\* N::from_f32(1.2), in tenths
DefaultMass == 12

\* ------------------------------------------------------------ input values
Forces == {Force3(Vector3(1, 0, 0), Vector3_zeros),
           Force3(Vector3(0, 2, 0), Vector3(0, 0, 1))}
Velocities == {Velocity3_zero, Velocity3_linear(1, 1, 1)}
Masses == {13, 0}
Handles == {"h1"}

\* ------------------------------------------------------ PhysicsBodyBuilder
\* impl From<BodyStatus> for PhysicsBodyBuilder
PhysicsBodyBuilder_from(body_status) ==
    [gravity_enabled      |-> FALSE,
     body_status          |-> body_status,
     velocity             |-> Velocity3_zero,
     angular_inertia      |-> Matrix3_zeros,
     mass                 |-> DefaultMass,
     local_center_of_mass |-> Point3_origin,
     rotations_kinematic  |-> Vector3(FALSE, FALSE, FALSE)]

Builder_gravity_enabled(self, gravity_enabled) ==
    [self EXCEPT !.gravity_enabled = gravity_enabled]

Builder_velocity(self, velocity) ==
    [self EXCEPT !.velocity = velocity]

Builder_angular_inertia(self, angular_inertia) ==
    [self EXCEPT !.angular_inertia = angular_inertia]

Builder_mass(self, mass) ==
    [self EXCEPT !.mass = mass]

Builder_local_center_of_mass(self, local_center_of_mass) ==
    [self EXCEPT !.local_center_of_mass = local_center_of_mass]

Builder_rotations_kinematic(self, rotations_kinematic) ==
    [self EXCEPT !.rotations_kinematic = rotations_kinematic]

\* Mutant: lock_rotations adds to the locks already set.
Builder_lock_rotations_additive(self, lock_rotations) ==
    [self EXCEPT !.rotations_kinematic =
        Vector3(self.rotations_kinematic[1] \/ lock_rotations,
                self.rotations_kinematic[2] \/ lock_rotations,
                self.rotations_kinematic[3] \/ lock_rotations)]

Builder_lock_rotations(self, lock_rotations) ==
    [self EXCEPT !.rotations_kinematic =
        Vector3(lock_rotations, lock_rotations, lock_rotations)]

\* Mutant: build forgets the rotation locks the builder carries.
Builder_build_no_locks(self) ==
    [handle               |-> None,
     gravity_enabled      |-> self.gravity_enabled,
     body_status          |-> self.body_status,
     velocity             |-> self.velocity,
     angular_inertia      |-> self.angular_inertia,
     mass                 |-> self.mass,
     local_center_of_mass |-> self.local_center_of_mass,
     external_forces      |-> Force3_zero,
     rotations_kinematic  |-> Vector3(FALSE, FALSE, FALSE)]

\* PhysicsBodyBuilder::build
Builder_build(self) ==
    [handle               |-> None,
     gravity_enabled      |-> self.gravity_enabled,
     body_status          |-> self.body_status,
     velocity             |-> self.velocity,
     angular_inertia      |-> self.angular_inertia,
     mass                 |-> self.mass,
     local_center_of_mass |-> self.local_center_of_mass,
     external_forces      |-> Force3_zero,
     rotations_kinematic  |-> self.rotations_kinematic]

\* The setter calls a caller can make, as [setter, arg] pairs.
SetterCalls ==
    [setter : {"gravity_enabled"}, arg : BOOLEAN]
    \cup [setter : {"velocity"}, arg : {Velocity3_linear(1, 1, 1)}]
    \cup [setter : {"angular_inertia"}, arg : {Matrix3_from_diagonal_element(3)}]
    \cup [setter : {"mass"}, arg : Masses]
    \cup [setter : {"local_center_of_mass"}, arg : {Point3(0, 1, 0)}]
    \cup [setter : {"rotations_kinematic"}, arg : {Vector3(TRUE, FALSE, FALSE)}]
    \cup [setter : {"lock_rotations"}, arg : BOOLEAN]

ArgsOf(setter) == {c.arg : c \in {d \in SetterCalls : d.setter = setter}}

\* One fluent call on a builder value.
CallSetter(self, call) ==
    CASE call.setter = "gravity_enabled"      -> Builder_gravity_enabled(self, call.arg)
      [] call.setter = "velocity"             -> Builder_velocity(self, call.arg)
      [] call.setter = "angular_inertia"      -> Builder_angular_inertia(self, call.arg)
      [] call.setter = "mass"                 -> Builder_mass(self, call.arg)
      [] call.setter = "local_center_of_mass" -> Builder_local_center_of_mass(self, call.arg)
      [] call.setter = "rotations_kinematic"  -> Builder_rotations_kinematic(self, call.arg)
      [] call.setter = "lock_rotations"       -> Builder_lock_rotations(self, call.arg)

RECURSIVE CallChain(_, _)
CallChain(self, chain) ==
    IF chain = <<>> THEN self
    ELSE CallChain(CallSetter(self, Head(chain)), Tail(chain))

RECURSIVE ChainsUpTo(_)
ChainsUpTo(n) ==
    IF n = 0 THEN {<<>>}
    ELSE ChainsUpTo(n - 1)
         \cup {Append(c, call) : c \in {d \in ChainsUpTo(n - 1) : Len(d) = n - 1},
                                 call \in SetterCalls}

\* ------------------------------------------------------------- PhysicsBody
\* Methods return [self |-> the component afterwards, ret |-> the value
\* returned]; a method returning `&mut Self` returns just the component.

\* Mutant: the peek consumes the accumulator.
check_external_force_draining(self) ==
    [self |-> [self EXCEPT !.external_forces = Force3_zero],
     ret  |-> self.external_forces]

\* Mutant: the peek reports the linear part only.
check_external_force_linear_only(self) ==
    [self |-> self, ret |-> Force3(self.external_forces.linear, Vector3_zeros)]

\* pub fn check_external_force(&self) -> &Force3<N>
check_external_force(self) ==
    [self |-> self, ret |-> self.external_forces]

\* Mutant: `=` in place of `+=`.
apply_external_force_overwrite(self, force) ==
    [self EXCEPT !.external_forces = force]

\* Mutant: the force is also added to the velocity.
apply_external_force_impulse(self, force) ==
    [self EXCEPT !.external_forces = Force3_add(self.external_forces, force),
                 !.velocity = Force3_add(self.velocity, force)]

\* pub fn apply_external_force(&mut self, force) -> &mut Self
apply_external_force(self, force) ==
    [self EXCEPT !.external_forces = Force3_add(self.external_forces, force)]

\* Mutant: building the descriptor consumes the accumulator.
to_rigid_body_desc_draining(self) ==
    [self |-> [self EXCEPT !.external_forces = Force3_zero],
     ret  |-> [gravity_enabled      |-> self.gravity_enabled,
               status               |-> self.body_status,
               velocity             |-> self.velocity,
               angular_inertia      |-> self.angular_inertia,
               mass                 |-> self.mass,
               local_center_of_mass |-> self.local_center_of_mass]]

\* Mutant: the descriptor replaces a non-positive mass by the default.
to_rigid_body_desc_clamping(self) ==
    [self |-> self,
     ret  |-> [gravity_enabled      |-> self.gravity_enabled,
               status               |-> self.body_status,
               velocity             |-> self.velocity,
               angular_inertia      |-> self.angular_inertia,
               mass                 |-> IF self.mass <= 0 THEN DefaultMass ELSE self.mass,
               local_center_of_mass |-> self.local_center_of_mass]]

\* Mutant: the descriptor also carries the rotation locks.
to_rigid_body_desc_with_locks(self) ==
    [self |-> self,
     ret  |-> [gravity_enabled      |-> self.gravity_enabled,
               status               |-> self.body_status,
               velocity             |-> self.velocity,
               angular_inertia      |-> self.angular_inertia,
               mass                 |-> self.mass,
               local_center_of_mass |-> self.local_center_of_mass,
               kinematic_rotations  |-> self.rotations_kinematic]]

\* RigidBodyDesc::new() followed by the six fluent setters
to_rigid_body_desc(self) ==
    [self |-> self,
     ret  |-> [gravity_enabled      |-> self.gravity_enabled,
               status               |-> self.body_status,
               velocity             |-> self.velocity,
               angular_inertia      |-> self.angular_inertia,
               mass                 |-> self.mass,
               local_center_of_mass |-> self.local_center_of_mass]]

\* Mutant: the drain returns the accumulator without resetting it.
drain_external_force_keep(self) ==
    [self |-> self, ret |-> self.external_forces]

\* fn drain_external_force(&mut self) -> Force3<N>
drain_external_force(self) ==
    LET value == self.external_forces
    IN [self |-> [self EXCEPT !.external_forces = Force3_zero], ret |-> value]

\* ------------------------------------------- the engine's RigidBody, as used
\* The setters and accessors the component calls on a RigidBody.  The body
\* records the force handed to apply_force (received_force).
RigidBody_enable_gravity(rb, enabled) == [rb EXCEPT !.gravity_enabled = enabled]
RigidBody_set_status(rb, status) == [rb EXCEPT !.status = status]
RigidBody_set_velocity(rb, velocity) == [rb EXCEPT !.velocity = velocity]
RigidBody_set_angular_inertia(rb, m) == [rb EXCEPT !.local_inertia.angular = m]
RigidBody_set_mass(rb, mass) == [rb EXCEPT !.local_inertia.linear = mass]
RigidBody_set_local_center_of_mass(rb, p) == [rb EXCEPT !.local_center_of_mass = p]
RigidBody_apply_force(rb, force) == [rb EXCEPT !.received_force = force]
RigidBody_set_rotations_kinematic(rb, flags) == [rb EXCEPT !.rotations_kinematic = flags]

\* Mutant: push reads the velocity back from the engine body.
apply_to_physics_world_readback(self, rigid_body) ==
    LET rb1 == RigidBody_enable_gravity(rigid_body, self.gravity_enabled)
        rb2 == RigidBody_set_status(rb1, self.body_status)
        rb4 == RigidBody_set_angular_inertia(rb2, self.angular_inertia)
        rb5 == RigidBody_set_mass(rb4, self.mass)
        rb6 == RigidBody_set_local_center_of_mass(rb5, self.local_center_of_mass)
        drained == drain_external_force(self)
        rb7 == RigidBody_apply_force(rb6, drained.ret)
        rb8 == RigidBody_set_rotations_kinematic(rb7, drained.self.rotations_kinematic)
    IN [self |-> [drained.self EXCEPT !.velocity = rigid_body.velocity],
        rigid_body |-> rb8]

\* Mutant: push leaves out set_rotations_kinematic.
apply_to_physics_world_no_locks(self, rigid_body) ==
    LET rb1 == RigidBody_enable_gravity(rigid_body, self.gravity_enabled)
        rb2 == RigidBody_set_status(rb1, self.body_status)
        rb3 == RigidBody_set_velocity(rb2, self.velocity)
        rb4 == RigidBody_set_angular_inertia(rb3, self.angular_inertia)
        rb5 == RigidBody_set_mass(rb4, self.mass)
        rb6 == RigidBody_set_local_center_of_mass(rb5, self.local_center_of_mass)
        drained == drain_external_force(self)
        rb7 == RigidBody_apply_force(rb6, drained.ret)
    IN [self |-> drained.self, rigid_body |-> rb7]

\* Mutant: the force is drained and submitted first, the parameters after it.
apply_to_physics_world_force_first(self, rigid_body) ==
    LET drained == drain_external_force(self)
        rb1 == RigidBody_apply_force(rigid_body, drained.ret)
        rb2 == RigidBody_set_rotations_kinematic(rb1, drained.self.rotations_kinematic)
        rb3 == RigidBody_enable_gravity(rb2, self.gravity_enabled)
        rb4 == RigidBody_set_status(rb3, self.body_status)
        rb5 == RigidBody_set_velocity(rb4, self.velocity)
        rb6 == RigidBody_set_angular_inertia(rb5, self.angular_inertia)
        rb7 == RigidBody_set_mass(rb6, self.mass)
        rb8 == RigidBody_set_local_center_of_mass(rb7, self.local_center_of_mass)
    IN [self |-> drained.self, rigid_body |-> rb8,
        at_force |-> rigid_body, after_force |-> rb1]

\* Mutant: push leaves out set_mass.
apply_to_physics_world_no_mass(self, rigid_body) ==
    LET rb1 == RigidBody_enable_gravity(rigid_body, self.gravity_enabled)
        rb2 == RigidBody_set_status(rb1, self.body_status)
        rb3 == RigidBody_set_velocity(rb2, self.velocity)
        rb4 == RigidBody_set_angular_inertia(rb3, self.angular_inertia)
        rb6 == RigidBody_set_local_center_of_mass(rb4, self.local_center_of_mass)
        drained == drain_external_force(self)
        rb7 == RigidBody_apply_force(rb6, drained.ret)
        rb8 == RigidBody_set_rotations_kinematic(rb7, drained.self.rotations_kinematic)
    IN [self |-> drained.self, rigid_body |-> rb8,
        at_force |-> rb6, after_force |-> rb7]

\* pub(crate) fn apply_to_physics_world(&mut self, rigid_body: &mut RigidBody<N>)
apply_to_physics_world(self, rigid_body) ==
    LET rb1 == RigidBody_enable_gravity(rigid_body, self.gravity_enabled)
        rb2 == RigidBody_set_status(rb1, self.body_status)
        rb3 == RigidBody_set_velocity(rb2, self.velocity)
        rb4 == RigidBody_set_angular_inertia(rb3, self.angular_inertia)
        rb5 == RigidBody_set_mass(rb4, self.mass)
        rb6 == RigidBody_set_local_center_of_mass(rb5, self.local_center_of_mass)
        drained == drain_external_force(self)
        rb7 == RigidBody_apply_force(rb6, drained.ret)
        rb8 == RigidBody_set_rotations_kinematic(rb7, drained.self.rotations_kinematic)
    IN [self |-> drained.self, rigid_body |-> rb8,
        \* the engine body as apply_force finds it, and as it leaves it
        at_force |-> rb6, after_force |-> rb7]

\* Mutant: pull also clears the accumulator.
update_from_physics_world_draining(self, rigid_body) ==
    [self |-> [self EXCEPT !.gravity_enabled = rigid_body.gravity_enabled,
                           !.body_status = rigid_body.status,
                           !.velocity = rigid_body.velocity,
                           !.angular_inertia = rigid_body.local_inertia.angular,
                           !.mass = rigid_body.local_inertia.linear,
                           !.external_forces = Force3_zero],
     rigid_body |-> rigid_body]

\* Mutant: pull adds the engine's velocity to the component's (`+=`).
update_from_physics_world_accumulating(self, rigid_body) ==
    [self |-> [self EXCEPT !.gravity_enabled = rigid_body.gravity_enabled,
                           !.body_status = rigid_body.status,
                           !.velocity = Force3_add(self.velocity, rigid_body.velocity),
                           !.angular_inertia = rigid_body.local_inertia.angular,
                           !.mass = rigid_body.local_inertia.linear],
     rigid_body |-> rigid_body]

\* Mutant: pull forgets the handle.
update_from_physics_world_unlinking(self, rigid_body) ==
    [self |-> [self EXCEPT !.gravity_enabled = rigid_body.gravity_enabled,
                           !.body_status = rigid_body.status,
                           !.velocity = rigid_body.velocity,
                           !.angular_inertia = rigid_body.local_inertia.angular,
                           !.mass = rigid_body.local_inertia.linear,
                           !.handle = None],
     rigid_body |-> rigid_body]

\* Mutant: pull leaves out the local-inertia report.
update_from_physics_world_no_inertia(self, rigid_body) ==
    [self |-> [self EXCEPT !.gravity_enabled = rigid_body.gravity_enabled,
                           !.body_status = rigid_body.status,
                           !.velocity = rigid_body.velocity],
     rigid_body |-> rigid_body]

\* pub(crate) fn update_from_physics_world(&mut self, rigid_body: &RigidBody<N>)
update_from_physics_world(self, rigid_body) ==
    LET s1 == [self EXCEPT !.gravity_enabled = rigid_body.gravity_enabled]
        s2 == [s1 EXCEPT !.body_status = rigid_body.status]
        s3 == [s2 EXCEPT !.velocity = rigid_body.velocity]
        local_inertia == rigid_body.local_inertia
        s4 == [s3 EXCEPT !.angular_inertia = local_inertia.angular]
        s5 == [s4 EXCEPT !.mass = local_inertia.linear]
    IN [self |-> s5, rigid_body |-> rigid_body]

\* The engine body the driver creates from a descriptor (RigidBodyDesc::build):
\* the descriptor's fields, no rotation locks, no force received yet.
RigidBodyDesc_build(desc) ==
    [gravity_enabled      |-> desc.gravity_enabled,
     status               |-> desc.status,
     velocity             |-> desc.velocity,
     local_inertia        |-> Inertia3(desc.mass, desc.angular_inertia),
     local_center_of_mass |-> desc.local_center_of_mass,
     rotations_kinematic  |-> Vector3(FALSE, FALSE, FALSE),
     received_force       |-> Force3_zero]

\* ---------------------------------------------------- util::SimplePosition
\* Isometry3: a rotation (unit quaternion <<w, i, j, k>>) and a translation.
Isometry3(rotation, translation) == [rotation |-> rotation, translation |-> translation]
Isometry3_identity == Isometry3(<<1, 0, 0, 0>>, Vector3(0, 0, 0))

Rotations == {<<1, 0, 0, 0>>, <<0, 0, 0, 1>>}
Translations == {Vector3(0, 0, 0), Vector3(1, 2, 3), Vector3(0, 0, 5)}
Isometries == {Isometry3(r, t) : r \in Rotations, t \in Translations}

\* pub struct SimplePosition<N: RealField>(pub Isometry3<N>)
SimplePosition(iso) == [f0 |-> iso]

\* fn isometry(&self) -> &Isometry3<N>
isometry(self) == [self |-> self, ret |-> self.f0]

\* fn isometry_mut(&mut self) -> &mut Isometry3<N>, and the caller's write of a
\* translation through the reference returned
isometry_mut_translation(self, translation) ==
    [self EXCEPT !.f0.translation = translation]

\* Mutant: set_isometry copies the translation only.
set_isometry_translation_only(self, iso) ==
    [self |-> [self EXCEPT !.f0.translation = iso.translation],
     isometry |-> iso]

\* fn set_isometry(&mut self, isometry: &Isometry3<N>) -> &mut Self
set_isometry(self, iso) ==
    LET s1 == [self EXCEPT !.f0.rotation = iso.rotation]
        s2 == [s1 EXCEPT !.f0.translation = iso.translation]
    IN [self |-> s2, isometry |-> iso]

\* ------------------------------------------------------------------- state
VARIABLES
    builder,         \* Option<PhysicsBodyBuilder>: the builder being configured
    setterLog,       \* history: the calls made on the builder, from(k) first
    body,            \* Option<PhysicsBody>: the component
    rb,              \* Option<RigidBody>: the engine body of the component
    lastOp,          \* the operation that produced this state
    ret,             \* Option: what that operation returned (force, descriptor)
    pending,         \* history: forces applied since the last push, in order
    totalApplied,    \* history: sum of every force passed to apply_external_force
    totalSubmitted,  \* history: sum of every force handed to RigidBody::apply_force
    nApplied,        \* history: number of apply_external_force calls
    position,        \* Option<SimplePosition>: the placement component
    transform        \* the caller's Isometry3, passed to set_isometry by reference

vars == <<builder, setterLog, body, rb, lastOp, ret, pending,
          totalApplied, totalSubmitted, nApplied, position, transform>>

poseVars == <<position, transform>>

syncVars == <<body, rb, ret, pending, totalApplied, totalSubmitted, nApplied>>
forceHistory == <<pending, totalApplied, totalSubmitted, nApplied>>

RECURSIVE SumForces(_)
SumForces(fs) ==
    IF fs = <<>> THEN Force3_zero
    ELSE Force3_add(SumForces(SubSeq(fs, 1, Len(fs) - 1)), fs[Len(fs)])

\* --------------------------------------------------------- builder actions
\* PhysicsBodyBuilder::from(k)
BuilderInit ==
    \E k \in BodyStatus :
        /\ builder = Some(PhysicsBodyBuilder_from(k))
        /\ setterLog = <<[setter |-> "from", arg |-> k]>>
        /\ body = None
        /\ rb = None
        /\ lastOp = "from"
        /\ ret = None
        /\ pending = <<>>
        /\ totalApplied = Force3_zero
        /\ totalSubmitted = Force3_zero
        /\ nApplied = 0
        /\ position = None
        /\ transform = Isometry3_identity

Setter(name) ==
    /\ builder # None
    /\ Len(setterLog) <= MaxSetterCalls
    /\ \E arg \in ArgsOf(name) :
        LET call == [setter |-> name, arg |-> arg]
        IN /\ builder' = Some(CallSetter(builder[1], call))
           /\ setterLog' = Append(setterLog, call)
    /\ lastOp' = name
    /\ UNCHANGED poseVars
    /\ UNCHANGED syncVars

SetGravityEnabled == Setter("gravity_enabled")
SetVelocity == Setter("velocity")
SetAngularInertia == Setter("angular_inertia")
SetMass == Setter("mass")
SetLocalCenterOfMass == Setter("local_center_of_mass")
SetRotationsKinematic == Setter("rotations_kinematic")
LockRotations == Setter("lock_rotations")

\* build(self) consumes the builder
Build ==
    /\ builder # None
    /\ body' = Some(Builder_build(builder[1]))
    /\ builder' = None
    /\ lastOp' = "build"
    /\ UNCHANGED poseVars
    /\ UNCHANGED <<setterLog, rb, ret, forceHistory>>

BuilderNext ==
    \/ SetGravityEnabled
    \/ SetVelocity
    \/ SetAngularInertia
    \/ SetMass
    \/ SetLocalCenterOfMass
    \/ SetRotationsKinematic
    \/ LockRotations
    \/ Build

BuilderSpec == BuilderInit /\ [][BuilderNext]_vars

\* ------------------------------------------------- synchronisation actions
\* The component as PhysicsBodyBuilder::from(k)...build() returns it.
Init ==
    \E k \in BodyStatus, chain \in ChainsUpTo(MaxInitSetters) :
        /\ builder = None
        /\ setterLog = <<>>
        /\ body = Some(Builder_build(CallChain(PhysicsBodyBuilder_from(k), chain)))
        /\ rb = None
        /\ lastOp = "build"
        /\ ret = None
        /\ pending = <<>>
        /\ totalApplied = Force3_zero
        /\ totalSubmitted = Force3_zero
        /\ nApplied = 0
        /\ position = None
        /\ transform = Isometry3_identity

ApplyExternalForce ==
    /\ body # None
    /\ nApplied < MaxApplies
    /\ \E force \in Forces :
        /\ body' = Some(apply_external_force(body[1], force))
        /\ pending' = Append(pending, force)
        /\ totalApplied' = Force3_add(totalApplied, force)
    /\ nApplied' = nApplied + 1
    /\ lastOp' = "apply_external_force"
    /\ UNCHANGED poseVars
    /\ ret' = None
    /\ UNCHANGED <<builder, setterLog, rb, totalSubmitted>>

CheckExternalForce ==
    /\ body # None
    /\ LET r == check_external_force(body[1])
       IN /\ body' = Some(r.self)
          /\ ret' = Some(r.ret)
    /\ lastOp' = "check_external_force"
    /\ UNCHANGED poseVars
    /\ UNCHANGED <<builder, setterLog, rb, forceHistory>>

ToRigidBodyDesc ==
    /\ body # None
    /\ LET r == to_rigid_body_desc(body[1])
       IN /\ body' = Some(r.self)
          /\ ret' = Some(r.ret)
    /\ lastOp' = "to_rigid_body_desc"
    /\ UNCHANGED poseVars
    /\ UNCHANGED <<builder, setterLog, rb, forceHistory>>

\* The driver, for a component without a handle: builds the descriptor, has
\* the engine create the body and records the handle the engine returns.
CreateBody ==
    /\ body # None
    /\ body[1].handle = None
    /\ \E h \in Handles :
        LET r == to_rigid_body_desc(body[1])
        IN /\ rb' = Some(RigidBodyDesc_build(r.ret))
           /\ body' = Some([r.self EXCEPT !.handle = Some(h)])
    /\ lastOp' = "create"
    /\ UNCHANGED poseVars
    /\ ret' = None
    /\ UNCHANGED <<builder, setterLog, forceHistory>>

\* push
ApplyToPhysicsWorld ==
    /\ body # None
    /\ rb # None
    /\ LET r == apply_to_physics_world(body[1], rb[1])
       IN /\ body' = Some(r.self)
          /\ rb' = Some(r.rigid_body)
          /\ totalSubmitted' = Force3_add(totalSubmitted, r.rigid_body.received_force)
    /\ pending' = <<>>
    /\ lastOp' = "apply_to_physics_world"
    /\ UNCHANGED poseVars
    /\ ret' = None
    /\ UNCHANGED <<builder, setterLog, totalApplied, nApplied>>

\* pull
UpdateFromPhysicsWorld ==
    /\ body # None
    /\ rb # None
    /\ LET r == update_from_physics_world(body[1], rb[1])
       IN /\ body' = Some(r.self)
          /\ rb' = Some(r.rigid_body)
    /\ lastOp' = "update_from_physics_world"
    /\ UNCHANGED poseVars
    /\ ret' = None
    /\ UNCHANGED <<builder, setterLog, forceHistory>>

\* The engine advances the simulation: the body's velocity is what the
\* integration makes it.
EngineStep ==
    /\ rb # None
    /\ \E v \in Velocities : rb' = Some([rb[1] EXCEPT !.velocity = v])
    /\ lastOp' = "step"
    /\ UNCHANGED poseVars
    /\ ret' = None
    /\ UNCHANGED <<builder, setterLog, body, forceHistory>>

\* Other code writes the engine body through the world (gravity flag, status,
\* mass and angular inertia), so that the engine body and the component differ.
WorldEdit ==
    /\ rb # None
    /\ \E g \in BOOLEAN :
        rb' = Some([rb[1] EXCEPT !.gravity_enabled = g,
                                 !.status = "Kinematic",
                                 !.local_inertia =
                                     Inertia3(20, Matrix3_from_diagonal_element(5))])
    /\ lastOp' = "edit"
    /\ UNCHANGED poseVars
    /\ ret' = None
    /\ UNCHANGED <<builder, setterLog, body, forceHistory>>

Next ==
    \/ ApplyExternalForce
    \/ CheckExternalForce
    \/ ToRigidBodyDesc
    \/ CreateBody
    \/ ApplyToPhysicsWorld
    \/ UpdateFromPhysicsWorld
    \/ EngineStep
    \/ WorldEdit

Spec == Init /\ [][Next]_vars

\* The driver keeps ticking: a component without a handle gets its engine body,
\* and a component with one is pushed once per tick.
FairSpec == Spec /\ WF_vars(CreateBody) /\ WF_vars(ApplyToPhysicsWorld)

\* ---------------------------------------------------------- pose actions
\* SimplePosition(i), and the transform the caller holds
PositionInit ==
    \E i \in Isometries, t \in Isometries :
        /\ position = Some(SimplePosition(i))
        /\ transform = t
        /\ builder = None
        /\ setterLog = <<>>
        /\ body = None
        /\ rb = None
        /\ lastOp = "new"
        /\ ret = None
        /\ pending = <<>>
        /\ totalApplied = Force3_zero
        /\ totalSubmitted = Force3_zero
        /\ nApplied = 0

\* The caller takes another transform.
PickTransform ==
    /\ \E t \in Isometries : transform' = t
    /\ lastOp' = "pick"
    /\ ret' = None
    /\ UNCHANGED <<builder, setterLog, body, rb, forceHistory, position>>

SetIsometry ==
    /\ position # None
    /\ LET r == set_isometry(position[1], transform)
       IN /\ position' = Some(r.self)
          /\ transform' = r.isometry
    /\ lastOp' = "set_isometry"
    /\ ret' = None
    /\ UNCHANGED <<builder, setterLog, body, rb, forceHistory>>

\* position.isometry_mut().translation = transform.translation
IsometryMut ==
    /\ position # None
    /\ position' = Some(isometry_mut_translation(position[1], transform.translation))
    /\ lastOp' = "isometry_mut"
    /\ ret' = None
    /\ UNCHANGED <<builder, setterLog, body, rb, forceHistory, transform>>

IsometryRead ==
    /\ position # None
    /\ LET r == isometry(position[1])
       IN /\ position' = Some(r.self)
          /\ ret' = Some(r.ret)
    /\ lastOp' = "isometry"
    /\ UNCHANGED <<builder, setterLog, body, rb, forceHistory, transform>>

PositionNext ==
    \/ PickTransform
    \/ SetIsometry
    \/ IsometryMut
    \/ IsometryRead

PositionSpec == PositionInit /\ [][PositionNext]_vars

\* ================================================================== claims
Pushed == lastOp' = "apply_to_physics_world"
Pulled == lastOp' = "update_from_physics_world"
Applied == lastOp' = "apply_external_force"
Checked == lastOp' = "check_external_force"
Described == lastOp' = "to_rigid_body_desc"

\* The component with its accumulator replaced: equal on every other field.
WithForces(self, forces) == [self EXCEPT !.external_forces = forces]

\* C1: a push submits to the engine body the vector sum of the forces applied
\* since the previous push (zero when there were none), and
\* check_external_force right after that push returns the zero force.
C1_ForceDrainExactness ==
    [][Pushed =>
        /\ rb'[1].received_force = SumForces(pending)
        /\ check_external_force(body'[1]).ret = Force3_zero]_vars

\* C1 witness: a push has just submitted the sum of two applied forces.
C1_Witness ==
    /\ lastOp = "apply_to_physics_world"
    /\ nApplied = 2
    /\ rb[1].received_force = Force3(Vector3(1, 2, 0), Vector3(0, 0, 1))
    /\ body[1].external_forces = Force3_zero

\* C2: exactly-once consumption: the forces submitted so far plus the
\* accumulator equal the forces applied so far, in every reachable state; and a
\* push with no apply_external_force since the previous push submits zero.
C2_ExactlyOnce ==
    /\ [](Force3_add(totalSubmitted, body[1].external_forces) = totalApplied)
    /\ [][(Pushed /\ pending = <<>>) => rb'[1].received_force = Force3_zero]_vars

\* C2 witness: a second push, with nothing applied since the first, submitted
\* zero after the first had submitted an applied force.
C2_Witness ==
    /\ lastOp = "apply_to_physics_world"
    /\ totalSubmitted = totalApplied
    /\ totalApplied # Force3_zero
    /\ rb[1].received_force = Force3_zero

\* C3 as claimed: every operation that hands the accumulator's value to its
\* caller (check_external_force, and the drain inside push) leaves the
\* accumulator at zero.
C3_NeverReadWithoutClear ==
    [][(Checked \/ Pushed) => body'[1].external_forces = Force3_zero]_vars

\* C3 as amended: the drain inside push hands the accumulator's value to the
\* engine and leaves the accumulator at zero; check_external_force returns the
\* accumulator's value and leaves the component, accumulator included, as it was.
C3_DrainClearsPeekKeeps ==
    [][/\ Pushed => /\ body'[1].external_forces = Force3_zero
                    /\ rb'[1].received_force = body[1].external_forces
       /\ Checked => /\ ret' = Some(body[1].external_forces)
                     /\ body' = body]_vars

\* C3 witness: a peek returned a non-zero force that is still in the accumulator.
C3_Witness ==
    /\ lastOp = "check_external_force"
    /\ ret # Some(Force3_zero)
    /\ ret = Some(body[1].external_forces)

\* C4: a push leaves every component field but external_forces as it was.
C4_PushFrame ==
    [][Pushed => WithForces(body'[1], body[1].external_forces) = body[1]]_vars

\* C4 witness: a component with a non-default mass and velocity was pushed and
\* still holds them.
C4_Witness ==
    /\ lastOp = "apply_to_physics_world"
    /\ body[1].mass = 20
    /\ body[1].velocity = Velocity3_linear(1, 1, 1)
    /\ rb[1].local_inertia.linear = 20

\* C5: a pull leaves the component's local_center_of_mass, rotations_kinematic,
\* handle and external_forces, and the engine body, as they were.
C5_PullFrame ==
    [][Pulled =>
        /\ body'[1].local_center_of_mass = body[1].local_center_of_mass
        /\ body'[1].rotations_kinematic = body[1].rotations_kinematic
        /\ body'[1].handle = body[1].handle
        /\ body'[1].external_forces = body[1].external_forces
        /\ rb' = rb]_vars

\* C5 witness: a pull overwrote the mirrored fields while a force is pending
\* and the component's rotation locks differ from the engine body's.
C5_Witness ==
    /\ lastOp = "update_from_physics_world"
    /\ body[1].external_forces # Force3_zero
    /\ body[1].rotations_kinematic # rb[1].rotations_kinematic
    /\ body[1].body_status = "Kinematic"

\* C6: pull is idempotent: a second pull on the same engine body, right after
\* a pull, leaves the component exactly as the first pull left it.
C6_PullIdempotent ==
    [][Pulled =>
        update_from_physics_world(body'[1], rb'[1]).self = body'[1]]_vars

\* C6 witness: a pull has brought an engine-side mass and velocity into the
\* component.
C6_Witness ==
    /\ lastOp = "update_from_physics_world"
    /\ body[1].mass = 20
    /\ body[1].velocity = Velocity3_linear(1, 1, 1)
    /\ body[1].gravity_enabled

\* C7: to_rigid_body_desc leaves every field of the component as it was, and a
\* second call on the unmodified component yields the same descriptor.
C7_DescriptorPurity ==
    [][Described =>
        /\ body' = body
        /\ Some(to_rigid_body_desc(body'[1]).ret) = ret']_vars

\* C7 witness: a descriptor was built from a component with a pending force
\* and a handle.
C7_Witness ==
    /\ lastOp = "to_rigid_body_desc"
    /\ body[1].external_forces # Force3_zero
    /\ body[1].handle # None
    /\ ret[1].mass = body[1].mass

\* The last call in `log` to one of the setters `names`: <<call>>, or <<>> when
\* none of them was called.
RECURSIVE LastCall(_, _)
LastCall(log, names) ==
    IF log = <<>> THEN <<>>
    ELSE IF log[Len(log)].setter \in names THEN <<log[Len(log)]>>
    ELSE LastCall(SubSeq(log, 1, Len(log) - 1), names)

LastArg(log, name, default) ==
    LET c == LastCall(log, {name}) IN IF c = <<>> THEN default ELSE c[1].arg

LastLocks(log) ==
    LET c == LastCall(log, {"rotations_kinematic", "lock_rotations"})
    IN IF c = <<>> THEN <<FALSE, FALSE, FALSE>>
       ELSE IF c[1].setter = "lock_rotations" THEN <<c[1].arg, c[1].arg, c[1].arg>>
       ELSE c[1].arg

\* What the claim says from(k), the logged setter calls and build() yield.
ExpectedBody(log) ==
    [handle               |-> <<>>,
     gravity_enabled      |-> LastArg(log, "gravity_enabled", FALSE),
     body_status          |-> log[1].arg,
     velocity             |-> LastArg(log, "velocity",
                                      [linear |-> <<0, 0, 0>>, angular |-> <<0, 0, 0>>]),
     angular_inertia      |-> LastArg(log, "angular_inertia",
                                      <<<<0, 0, 0>>, <<0, 0, 0>>, <<0, 0, 0>>>>),
     mass                 |-> LastArg(log, "mass", 12),
     local_center_of_mass |-> LastArg(log, "local_center_of_mass", <<0, 0, 0>>),
     external_forces      |-> [linear |-> <<0, 0, 0>>, angular |-> <<0, 0, 0>>],
     rotations_kinematic  |-> LastLocks(log)]

\* C8: from(k), any setter calls, build() yield handle None, zero forces,
\* body_status k and, for each other field, the value of its last setter call
\* or its default.
C8_BuilderResult ==
    lastOp = "build" => body = Some(ExpectedBody(setterLog))

\* C8 witness: a component was built after mass was set twice, to different
\* values.
C8_Witness ==
    /\ lastOp = "build"
    /\ Len(setterLog) = 3
    /\ setterLog[2].setter = "mass"
    /\ setterLog[3].setter = "mass"
    /\ setterLog[2].arg # setterLog[3].arg
    /\ body[1].mass = setterLog[3].arg

LayerOps ==
    {"apply_external_force", "check_external_force", "to_rigid_body_desc",
     "apply_to_physics_world", "update_from_physics_world"}

\* C9: a handle that is Some(h) stays Some(h), and no step of
\* apply_external_force, check_external_force, to_rigid_body_desc, push or pull
\* changes the handle.
C9_HandleStable ==
    [][/\ body[1].handle # None => body'[1].handle = body[1].handle
       /\ lastOp' \in LayerOps => body'[1].handle = body[1].handle]_vars

\* C9 witness: the component still holds its handle after a pull that followed
\* a push.
C9_Witness ==
    /\ lastOp = "update_from_physics_world"
    /\ body[1].handle = Some("h1")
    /\ totalSubmitted # Force3_zero

\* C10: apply_external_force(f) adds f to external_forces and leaves every
\* other field of the component as it was.
C10_ApplyFrame ==
    [][Applied =>
        LET f == pending'[Len(pending')]
        IN body'[1] = WithForces(body[1], Force3_add(body[1].external_forces, f))]_vars

\* C10 witness: a second force was added to a non-zero accumulator.
C10_Witness ==
    /\ lastOp = "apply_external_force"
    /\ Len(pending) = 2
    /\ pending[1] # pending[2]
    /\ body[1].external_forces = Force3(Vector3(1, 2, 0), Vector3(0, 0, 1))

\* C11: check_external_force is a read-only peek: it returns the sum of the
\* forces applied since the last drain and leaves the component as it was, so
\* a second peek returns the same value and a following push submits it.
C11_PeekReadOnly ==
    [][Checked =>
        /\ ret' = Some(SumForces(pending))
        /\ body' = body
        /\ check_external_force(body'[1]) = [self |-> body'[1], ret |-> ret'[1]]
        /\ rb' # None =>
             apply_to_physics_world(body'[1], rb'[1]).rigid_body.received_force
                 = ret'[1]]_vars

\* C11 witness: a peek returned the sum of two pending forces while an engine
\* body exists for the next push.
C11_Witness ==
    /\ lastOp = "check_external_force"
    /\ Len(pending) = 2
    /\ ret = Some(Force3(Vector3(1, 2, 0), Vector3(0, 0, 1)))
    /\ rb # None
    /\ body[1].handle # None

\* C12: after a push the engine body's gravity flag, status, velocity, angular
\* inertia, mass, local center of mass and rotation-kinematic flags equal the
\* component's, whatever the engine body held before.
C12_PushMirrors ==
    [][Pushed =>
        /\ rb'[1].gravity_enabled = body[1].gravity_enabled
        /\ rb'[1].status = body[1].body_status
        /\ rb'[1].velocity = body[1].velocity
        /\ rb'[1].local_inertia.angular = body[1].angular_inertia
        /\ rb'[1].local_inertia.linear = body[1].mass
        /\ rb'[1].local_center_of_mass = body[1].local_center_of_mass
        /\ rb'[1].rotations_kinematic = body[1].rotations_kinematic]_vars

\* C12 witness: a component built with rotations_kinematic (true,false,false)
\* was pushed and the engine body's flags are (true,false,false).
C12_Witness ==
    /\ lastOp = "apply_to_physics_world"
    /\ body[1].rotations_kinematic = <<TRUE, FALSE, FALSE>>
    /\ rb[1].rotations_kinematic = <<TRUE, FALSE, FALSE>>
    /\ rb[1].status = body[1].body_status

\* C13: no operation rejects a component for its values: a peek and a
\* descriptor are possible on every component, a push and a pull whenever an
\* engine body exists; and the mass, in range or not, reaches the descriptor
\* and the engine body unchanged.
C13_NoValidation ==
    /\ [](body # None =>
            /\ ENABLED CheckExternalForce
            /\ ENABLED ToRigidBodyDesc
            /\ nApplied < MaxApplies => ENABLED ApplyExternalForce
            /\ rb # None => ENABLED ApplyToPhysicsWorld /\ ENABLED UpdateFromPhysicsWorld)
    /\ [][/\ Described => ret'[1].mass = body[1].mass
          /\ Pushed => /\ rb'[1].local_inertia.linear = body[1].mass
                       /\ body'[1].mass = body[1].mass]_vars

\* C13 witness: a component built with mass 0 was pushed and the engine body
\* holds mass 0.
C13_Witness ==
    /\ lastOp = "apply_to_physics_world"
    /\ body[1].mass = 0
    /\ rb[1].local_inertia.linear = 0

\* C13 witness of the descriptor: a descriptor carries mass 0.
C13_DescWitness ==
    /\ lastOp = "to_rigid_body_desc"
    /\ ret[1].mass = 0

\* C14: inside one push the engine body's gravity flag, status, velocity,
\* angular inertia, mass and center of mass are written from the component
\* before the force is drained and submitted, and the rotation-kinematic flags
\* only after it: the body apply_force finds holds this call's six parameters,
\* the previous flags and the previous force; apply_force changes the force
\* alone, to the drained accumulator; the flags are the component's at the end.
C14_PushOrder ==
    [][Pushed =>
        LET r == apply_to_physics_world(body[1], rb[1])
        IN /\ r.at_force.gravity_enabled = body[1].gravity_enabled
           /\ r.at_force.status = body[1].body_status
           /\ r.at_force.velocity = body[1].velocity
           /\ r.at_force.local_inertia = Inertia3(body[1].mass, body[1].angular_inertia)
           /\ r.at_force.local_center_of_mass = body[1].local_center_of_mass
           /\ r.at_force.rotations_kinematic = rb[1].rotations_kinematic
           /\ r.at_force.received_force = rb[1].received_force
           /\ r.after_force =
                [r.at_force EXCEPT !.received_force = body[1].external_forces]
           /\ rb'[1] =
                [r.after_force EXCEPT !.rotations_kinematic = body[1].rotations_kinematic]
           /\ body'[1] = r.self]_vars

\* C14 witness: a push submitted a non-zero force to an engine body that now
\* holds a mass, an inertia and rotation locks other than the defaults.
C14_Witness ==
    /\ lastOp = "apply_to_physics_world"
    /\ rb[1].received_force # Force3_zero
    /\ rb[1].local_inertia = Inertia3(20, Matrix3_from_diagonal_element(5))
    /\ rb[1].rotations_kinematic = <<TRUE, TRUE, TRUE>>

\* C15: after a pull the component's gravity_enabled, body_status and velocity
\* equal the engine body's gravity flag, status and velocity, its
\* angular_inertia the angular part and its mass the linear part of the engine
\* body's local inertia, whatever the component held before.
C15_PullMirrors ==
    [][Pulled =>
        /\ body'[1].gravity_enabled = rb[1].gravity_enabled
        /\ body'[1].body_status = rb[1].status
        /\ body'[1].velocity = rb[1].velocity
        /\ body'[1].angular_inertia = rb[1].local_inertia.angular
        /\ body'[1].mass = rb[1].local_inertia.linear]_vars

\* C15 witness: a pull brought an edited status, inertia and mass into a
\* component while the velocity pulled is zero and gravity is off.
C15_Witness ==
    /\ lastOp = "update_from_physics_world"
    /\ body[1].body_status = "Kinematic"
    /\ body[1].angular_inertia = Matrix3_from_diagonal_element(5)
    /\ body[1].mass = 20
    /\ body[1].velocity = Velocity3_zero
    /\ ~body[1].gravity_enabled

\* The components that differ from `self` in external_forces,
\* rotations_kinematic or handle at most.
SameDescribedFields(self) ==
    {[self EXCEPT !.external_forces = f, !.rotations_kinematic = k, !.handle = h] :
        f \in {Force3_zero} \cup Forces,
        k \in {<<FALSE, FALSE, FALSE>>, <<TRUE, FALSE, FALSE>>, <<TRUE, TRUE, TRUE>>},
        h \in {None} \cup {Some(x) : x \in Handles}}

\* C16: the descriptor carries the component's gravity_enabled, body_status,
\* velocity, angular_inertia, mass and local_center_of_mass and nothing else:
\* components that differ only in external_forces, rotations_kinematic or
\* handle get the same descriptor.
C16_DescriptorDependsOnSix ==
    [][Described =>
        /\ ret'[1] = [gravity_enabled      |-> body[1].gravity_enabled,
                      status               |-> body[1].body_status,
                      velocity             |-> body[1].velocity,
                      angular_inertia      |-> body[1].angular_inertia,
                      mass                 |-> body[1].mass,
                      local_center_of_mass |-> body[1].local_center_of_mass]
        /\ \A other \in SameDescribedFields(body[1]) :
               to_rigid_body_desc(other).ret = ret'[1]]_vars

\* C16 witness: a descriptor was built from a component with rotation locks, a
\* pending force and no handle.
C16_Witness ==
    /\ lastOp = "to_rigid_body_desc"
    /\ body[1].rotations_kinematic = <<TRUE, FALSE, FALSE>>
    /\ body[1].external_forces # Force3_zero
    /\ body[1].handle = None

LastCallOf(log) == log[Len(log)]

\* C17: lock_rotations(b) leaves the builder as rotations_kinematic((b,b,b))
\* would; each of the two replaces the rotation locks whole, whatever an
\* earlier call of either set, and changes no other field of the builder.
C17_LockRotations ==
    [][/\ lastOp' = "lock_rotations" =>
            LET b == LastCallOf(setterLog').arg
            IN /\ builder'[1] = [builder[1] EXCEPT !.rotations_kinematic = <<b, b, b>>]
               /\ builder'[1] = Builder_rotations_kinematic(builder[1], <<b, b, b>>)
       /\ lastOp' = "rotations_kinematic" =>
            builder'[1] = [builder[1] EXCEPT !.rotations_kinematic =
                                                LastCallOf(setterLog').arg]]_vars

\* C17 witness: lock_rotations(false) was called after
\* rotations_kinematic((true,false,false)) and no axis is locked.
C17_Witness ==
    /\ lastOp = "lock_rotations"
    /\ Len(setterLog) = 3
    /\ setterLog[2] = [setter |-> "rotations_kinematic", arg |-> <<TRUE, FALSE, FALSE>>]
    /\ setterLog[3] = [setter |-> "lock_rotations", arg |-> FALSE]
    /\ builder[1].rotations_kinematic = <<FALSE, FALSE, FALSE>>

\* C18: after set_isometry(t) the position's isometry has t's rotation and
\* translation, t is as it was, and set_isometry(t) again changes nothing; a
\* translation written through isometry_mut() is what isometry() then returns,
\* beside the rotation it had.
C18_SetIsometry ==
    [][/\ lastOp' = "set_isometry" =>
            /\ isometry(position'[1]).ret.rotation = transform.rotation
            /\ isometry(position'[1]).ret.translation = transform.translation
            /\ transform' = transform
            /\ set_isometry(position'[1], transform').self = position'[1]
       /\ lastOp' = "isometry_mut" =>
            isometry(position'[1]).ret =
                Isometry3(position[1].f0.rotation, transform.translation)
       /\ lastOp' = "isometry" => ret' = Some(position[1].f0) /\ position' = position]_vars

\* C18 witness: set_isometry has just given the position a transform with a
\* rotation and a translation other than the identity's.
C18_Witness ==
    /\ lastOp = "set_isometry"
    /\ position = Some(SimplePosition(Isometry3(<<0, 0, 0, 1>>, <<1, 2, 3>>)))
    /\ transform = Isometry3(<<0, 0, 0, 1>>, <<1, 2, 3>>)

\* C19: a pull right after a push, on the engine body the push wrote, gives
\* back the component as it was before the push with external_forces zero:
\* gravity_enabled, body_status, velocity, angular_inertia and mass make the
\* round trip, and the pull step itself changes nothing in the component.
C19_PushPullRoundTrip ==
    [][/\ Pushed =>
            update_from_physics_world(body'[1], rb'[1]).self
                = WithForces(body[1], Force3_zero)
       /\ (lastOp = "apply_to_physics_world" /\ Pulled) => body' = body]_vars

\* C19 witness: a component with a velocity, mass 0 and a pending force was
\* pushed to an engine body, which now mirrors it.
C19_Witness ==
    /\ lastOp = "apply_to_physics_world"
    /\ body[1].velocity = Velocity3_linear(1, 1, 1)
    /\ body[1].mass = 0
    /\ rb[1].local_inertia.linear = 0
    /\ rb[1].velocity = Velocity3_linear(1, 1, 1)
    /\ rb[1].received_force # Force3_zero

\* C20: an applied force stays in the accumulator until the next push: the
\* accumulator is the sum of the forces applied since the last push in every
\* reachable state (with or without a handle, across to_rigid_body_desc,
\* creation, step and pull); the engine body receives a force in a push step
\* and in no other; and the push submits the whole accumulator.
C20_ForceWaitsForPush ==
    /\ [](body[1].external_forces = SumForces(pending))
    /\ [][/\ totalSubmitted' # totalSubmitted => Pushed
          /\ (rb # None /\ rb' # None /\ rb'[1].received_force # rb[1].received_force)
               => Pushed
          /\ Pushed => /\ rb'[1].received_force = body[1].external_forces
                       /\ pending' = <<>>]_vars

\* C20: every applied force is eventually submitted when pushes keep happening:
\* whenever the forces applied exceed the forces submitted, the engine body
\* eventually has received all of them; and (above) they leave the accumulator
\* through a push alone, which submits all of them.
C20_EventuallySubmitted ==
    /\ C20_ForceWaitsForPush
    /\ (totalSubmitted # totalApplied) ~> (totalSubmitted = totalApplied)

\* C20 witness: two forces, applied and not yet pushed, are in the accumulator
\* after a pull, on a component that has its handle; nothing was submitted yet.
C20_Witness ==
    /\ lastOp = "update_from_physics_world"
    /\ Len(pending) = 2
    /\ body[1].external_forces = Force3(Vector3(1, 2, 0), Vector3(0, 0, 1))
    /\ body[1].handle # None
    /\ totalSubmitted = Force3_zero

====
